---- MODULE Spec2Model ----
(***************************************************************************)
(* A model of the credit-card statement parser: the batch driver           *)
(* (main.py), the two-engine text extraction (extract.py), the bank        *)
(* classifier and the five per-bank field routines (parsers.py) and the    *)
(* orchestrator (orchestrator.py).                                         *)
(*                                                                         *)
(* A text is a sequence of characters; a character is a one-character      *)
(* string, except for the three non-ASCII characters the code names, which *)
(* are written as the tokens Rupee, EnDash and UMinus.  Positions are      *)
(* 1-based; a match [s, e) covers the characters s .. e-1.                 *)
(***************************************************************************)
EXTENDS Integers, Sequences, FiniteSets, TLC

\* ------------------------------------------------------------ characters

Rupee == "U+20B9"
EnDash == "U+2013"
UMinus == "U+2212"
NL == "\n"

Digit == {"0", "1", "2", "3", "4", "5", "6", "7", "8", "9"}
LowerAZ == {"a", "b", "c", "d", "e", "f", "g", "h", "i", "j", "k", "l", "m",
            "n", "o", "p", "q", "r", "s", "t", "u", "v", "w", "x", "y", "z"}
UpperAZ == {"A", "B", "C", "D", "E", "F", "G", "H", "I", "J", "K", "L", "M",
            "N", "O", "P", "Q", "R", "S", "T", "U", "V", "W", "X", "Y", "Z"}
Space == {" ", NL, "\t"}
Punct == {":", "$", ",", ".", "/", "-", "#", "=", "_", Rupee, EnDash, UMinus}
Char == Digit \cup LowerAZ \cup UpperAZ \cup Space \cup Punct
WordChar == Digit \cup LowerAZ \cup UpperAZ \cup {"_"}

\* str.lower() and str.upper() on one character
ToLower == [c \in UpperAZ |->
    CASE c = "A" -> "a" [] c = "B" -> "b" [] c = "C" -> "c" [] c = "D" -> "d"
      [] c = "E" -> "e" [] c = "F" -> "f" [] c = "G" -> "g" [] c = "H" -> "h"
      [] c = "I" -> "i" [] c = "J" -> "j" [] c = "K" -> "k" [] c = "L" -> "l"
      [] c = "M" -> "m" [] c = "N" -> "n" [] c = "O" -> "o" [] c = "P" -> "p"
      [] c = "Q" -> "q" [] c = "R" -> "r" [] c = "S" -> "s" [] c = "T" -> "t"
      [] c = "U" -> "u" [] c = "V" -> "v" [] c = "W" -> "w" [] c = "X" -> "x"
      [] c = "Y" -> "y" [] c = "Z" -> "z"]

LowerChar(c) == IF c \in UpperAZ THEN ToLower[c] ELSE c

UpperChar(c) == IF c \in LowerAZ THEN CHOOSE u \in UpperAZ : ToLower[u] = c ELSE c

\* str.lower()
Lower(t) == [i \in 1..Len(t) |-> LowerChar(t[i])]

\* The absent marker (Python's None); no text equals it.
None == <<"None">>

IsStr(v) == v /= None /\ \A i \in 1..Len(v) : v[i] \in Char

\* Python truthiness of an Optional[str]
Truthy(v) == v /= None /\ v /= <<>>

\* text[a:b] with 0-based Python slice bounds a <= b, clipped to the text
Slice(t, a, b) == SubSeq(t, a + 1, IF b > Len(t) THEN Len(t) ELSE b)

\* "needle in t"
Contains(t, needle) ==
    \E i \in 1..(Len(t) - Len(needle) + 1) :
        \A j \in 1..Len(needle) : t[i + j - 1] = needle[j]

\* str.strip()
Strip(t) ==
    LET keep == {i \in 1..Len(t) : t[i] \notin Space}
    IN  IF keep = {} THEN <<>>
        ELSE SubSeq(t, CHOOSE i \in keep : \A j \in keep : i <= j,
                       CHOOSE i \in keep : \A j \in keep : i >= j)

\* str.replace(a, b) for single characters
ReplaceChar(t, a, b) == [i \in 1..Len(t) |-> IF t[i] = a THEN b ELSE t[i]]

\* --------------------------------------------------- regular expressions
\* The subset of Python's re the code uses, matched by backtracking in re's
\* priority order: alternatives left to right, greedy repetitions longest
\* first, lazy ones shortest first.

Inf == -1

Lit(s) == [op |-> "lit", s |-> s]
Cls(set) == [op |-> "cls", set |-> set]
Cat(rs) == [op |-> "cat", rs |-> rs]
Alt(a, b) == [op |-> "alt", a |-> a, b |-> b]
Rep(r, lo, hi) == [op |-> "rep", r |-> r, lo |-> lo, hi |-> hi, greedy |-> TRUE]
LazyRep(r, lo, hi) == [op |-> "rep", r |-> r, lo |-> lo, hi |-> hi, greedy |-> FALSE]
Star(r) == Rep(r, 0, Inf)
Plus(r) == Rep(r, 1, Inf)
Opt(r) == Rep(r, 0, 1)
Grp(n, r) == [op |-> "grp", n |-> n, r |-> r]
WordB == [op |-> "wb"]
Bol == [op |-> "bol"]

\* \s, \d and . (under DOTALL) or [\s\S]
WS == Cls(Space)
Dg == Cls(Digit)
AnyChar == Cls(Char)

NoGroups == [n \in 1..2 |-> <<0, 0>>]
NoMatch == [ok |-> FALSE, s |-> 0, e |-> 0, g |-> NoGroups]

\* one character against a literal character / a class, with re.IGNORECASE
SameChar(c, d, ic) == IF ic THEN LowerChar(c) = LowerChar(d) ELSE c = d

InClass(c, set, ic) ==
    IF ic THEN c \in set \/ LowerChar(c) \in set \/ UpperChar(c) \in set
    ELSE c \in set

IsWord(t, i) == i >= 1 /\ i <= Len(t) /\ t[i] \in WordChar

Dec(hi) == IF hi = Inf THEN Inf ELSE hi - 1

Min(set) == CHOOSE x \in set : \A y \in set : x <= y

Max(set) == CHOOSE x \in set : \A y \in set : x >= y

\* how many characters of the class follow one another from position i on,
\* at most hi of them
RunLength(t, i, set, hi, ic) ==
    LET stops == {j \in i..Len(t) : ~InClass(t[j], set, ic)}
        n == (IF stops = {} THEN Len(t) + 1 ELSE Min(stops)) - i
    IN  IF hi /= Inf /\ n > hi THEN hi ELSE n

\* Match the sequence of nodes rs at position i of t; the first success in
\* backtracking order, or NoMatch.  A repetition of a character class takes
\* the longest (greedy) or the shortest (lazy) count with which the rest of
\* the pattern matches, which is the count backtracking settles on.
RECURSIVE Bt(_, _, _, _, _)

\* the first alternative that matches
FirstOk(a, b) == IF a.ok THEN a ELSE b

\* the count a repetition of a class settles on, -1 when none will do
Settle(good, greedy) == IF good = {} THEN -1 ELSE IF greedy THEN Max(good) ELSE Min(good)

AfterCount(k, t, i, c, g, ic) == IF c < 0 THEN NoMatch ELSE Bt(k, t, i + c, g, ic)

RepeatClass(r, k, t, i, n, g, ic) ==
    AfterCount(k, t, i, Settle({c \in r.lo..n : Bt(k, t, i + c, g, ic).ok}, r.greedy), g, ic)

Repeat(r, k, t, i, g, ic) ==
    IF r.lo > 0
    THEN Bt(<<r.r, [r EXCEPT !.lo = r.lo - 1, !.hi = Dec(r.hi)]>> \o k, t, i, g, ic)
    ELSE IF r.hi = 0 THEN Bt(k, t, i, g, ic)
    ELSE IF r.greedy
    THEN FirstOk(Bt(<<r.r, [r EXCEPT !.hi = Dec(r.hi)]>> \o k, t, i, g, ic),
                 Bt(k, t, i, g, ic))
    ELSE FirstOk(Bt(k, t, i, g, ic),
                 Bt(<<r.r, [r EXCEPT !.hi = Dec(r.hi)]>> \o k, t, i, g, ic))

Node(r, k, t, i, g, ic) ==
    CASE r.op = "lit" ->
           IF /\ i + Len(r.s) - 1 <= Len(t)
              /\ \A j \in 1..Len(r.s) : SameChar(t[i + j - 1], r.s[j], ic)
           THEN Bt(k, t, i + Len(r.s), g, ic)
           ELSE NoMatch
      [] r.op = "cls" ->
           IF i <= Len(t) /\ InClass(t[i], r.set, ic) THEN Bt(k, t, i + 1, g, ic) ELSE NoMatch
      [] r.op = "cat" -> Bt(r.rs \o k, t, i, g, ic)
      [] r.op = "alt" ->
           FirstOk(Bt(<<r.a>> \o k, t, i, g, ic), Bt(<<r.b>> \o k, t, i, g, ic))
      [] r.op = "rep" /\ r.r.op = "cls" ->
           RepeatClass(r, k, t, i, RunLength(t, i, r.r.set, r.hi, ic), g, ic)
      [] r.op = "rep" /\ r.r.op /= "cls" -> Repeat(r, k, t, i, g, ic)
      [] r.op = "grp" ->
           Bt(<<[op |-> "open", n |-> r.n], r.r, [op |-> "close", n |-> r.n]>> \o k,
              t, i, g, ic)
      [] r.op = "open" -> Bt(k, t, i, [g EXCEPT ![r.n] = <<i, i>>], ic)
      [] r.op = "close" -> Bt(k, t, i, [g EXCEPT ![r.n] = <<g[r.n][1], i>>], ic)
      [] r.op = "wb" ->
           IF IsWord(t, i - 1) /= IsWord(t, i) THEN Bt(k, t, i, g, ic) ELSE NoMatch
      [] r.op = "bol" -> IF i = 1 THEN Bt(k, t, i, g, ic) ELSE NoMatch

Bt(rs, t, i, g, ic) ==
    IF rs = <<>> THEN [ok |-> TRUE, s |-> 0, e |-> i, g |-> g]
    ELSE Node(Head(rs), Tail(rs), t, i, g, ic)

\* re.match anchored at position i
MatchAt(r, t, i, ic) == [Bt(<<r>>, t, i, NoGroups, ic) EXCEPT !.s = i]

\* the leftmost of the matches ms
Leftmost(ms) ==
    IF \A m \in ms : ~m.ok THEN NoMatch
    ELSE CHOOSE m \in ms : m.ok /\ \A m2 \in ms : m2.ok => m.s <= m2.s

\* re.search from position i on: the leftmost position with a match
SearchFrom(r, t, i, ic) == Leftmost({MatchAt(r, t, j, ic) : j \in i..(Len(t) + 1)})

\* re.search(pattern, text, flags)
Search(r, t, ic) == SearchFrom(r, t, 1, ic)

\* m.group(n)
Group(t, m, n) == SubSeq(t, m.g[n][1], m.g[n][2] - 1)

\* re.findall for a pattern with one group: group 1 of every non-overlapping
\* match, left to right
RECURSIVE FindAllFrom(_, _, _, _)

Collect(r, t, m, ic) ==
    IF ~m.ok THEN <<>>
    ELSE <<Group(t, m, 1)>> \o FindAllFrom(r, t, IF m.e > m.s THEN m.e ELSE m.e + 1, ic)

FindAllFrom(r, t, i, ic) == Collect(r, t, SearchFrom(r, t, i, ic), ic)

FindAll(r, t, ic) == FindAllFrom(r, t, 1, ic)

\* re.sub(pattern, "", text, flags): every non-overlapping match removed
RECURSIVE SubEmptyFrom(_, _, _, _)

Remove(r, t, i, m, ic) ==
    IF m.ok /\ m.e > i THEN SubEmptyFrom(r, t, m.e, ic)
    ELSE <<t[i]>> \o SubEmptyFrom(r, t, i + 1, ic)

SubEmptyFrom(r, t, i, ic) ==
    IF i > Len(t) THEN <<>> ELSE Remove(r, t, i, MatchAt(r, t, i, ic), ic)

SubEmpty(r, t, ic) == SubEmptyFrom(r, t, 1, ic)

\* ----------------------------------------------------------- parsers.py

\* FIELDS, in the order of the list
FIELDS == <<"total_balance", "payment_due_date", "minimum_payment", "last4",
            "statement_closing_date">>

FieldKeys == {FIELDS[i] : i \in 1..Len(FIELDS)}

\* {k: None for k in FIELDS}
EmptyFields == [k \in FieldKeys |-> None]

\* d[k] = v on a dict: the key is added when it is not there
Put(d, k, v) == [x \in (DOMAIN d) \cup {k} |-> IF x = k THEN v ELSE d[x]]

\* ^[₹r\s]+   (no flags)
CurrencyPrefix == Cat(<<Bol, Plus(Cls({Rupee, "r"} \cup Space))>>)

\* \s*CR\b   (IGNORECASE)
CrSuffix == Cat(<<Star(WS), Lit(<<"C", "R">>), WordB>>)

_clean_amount(s) ==
    LET s1 == Strip(s)
        s2 == ReplaceChar(s1, UMinus, "-")
        s3 == SubEmpty(CurrencyPrefix, s2, FALSE)
    IN  SubEmpty(CrSuffix, s3, TRUE)

_last4_from_number_block(s) ==
    LET digits == SelectSeq(s, LAMBDA c : c \in Digit)
    IN  IF digits = <<>> THEN None
        ELSE IF Len(digits) >= 4 THEN SubSeq(digits, Len(digits) - 3, Len(digits))
        ELSE None

\* "if m: out[key] = ..." for a match m in t, in the forms the routines use
PutGroup(out, key, t, m) == IF m.ok THEN Put(out, key, Group(t, m, 1)) ELSE out

PutStripped(out, key, t, m, n) == IF m.ok THEN Put(out, key, Strip(Group(t, m, n))) ELSE out

PutAmount(out, key, t, m) ==
    IF m.ok THEN Put(out, key, _clean_amount(Group(t, m, 1))) ELSE out

\* PutLast4 writing under a misspelt key
PutLast4Misspelt(out, key, t, m) ==
    IF m.ok THEN Put(out, "last_4", _last4_from_number_block(Group(t, m, 1))) ELSE out

PutLast4(out, key, t, m) ==
    IF m.ok THEN Put(out, key, _last4_from_number_block(Group(t, m, 1))) ELSE out

\* "if v: out[key] = v" and "if v: out[key] = _clean_amount(v)"
PutValue(out, key, v) == IF Truthy(v) THEN Put(out, key, v) ELSE out

PutCleanValue(out, key, v) == IF Truthy(v) THEN Put(out, key, _clean_amount(v)) ELSE out

\* lines 42-45: the value pattern searched in the snippet
ValueIn(snippet, mv) == IF mv.ok THEN Strip(Group(snippet, mv, 1)) ELSE None

\* Snippet without the window: everything after the label
SnippetUnbounded(t, m, window) == Slice(t, m.e - 1, Len(t))

\* lines 40-41: the window characters after the label match m
Snippet(t, m, window) == Slice(t, m.e - 1, m.e - 1 + window)

SearchSnippet(snippet, value_pattern) ==
    ValueIn(snippet, Search(value_pattern, snippet, TRUE))

AfterLabel(t, m, value_pattern, window) ==
    IF ~m.ok THEN None ELSE SearchSnippet(Snippet(t, m, window), value_pattern)

_find_value_after_label(t, label_pattern, value_pattern, window) ==
    AfterLabel(t, Search(label_pattern, t, TRUE), value_pattern, window)

\* shared pattern pieces
\* [\d,]+(?:\.\d{2})?
Amount == Cat(<<Plus(Cls(Digit \cup {","})), Opt(Cat(<<Lit(<<".">>), Rep(Dg, 2, 2)>>))>>)

\* \$?([\d,]+(?:\.\d{2})?)
DollarAmount == Cat(<<Opt(Lit(<<"$">>)), Grp(1, Amount)>>)

\* [:\s]*
ColonWs == Star(Cls({":"} \cup Space))

\* ([₹r]?\s*(?:\d{1,3}(?:,\d{3})+|\d+\.\d{2}))
RupeeAmount ==
    Grp(1, Cat(<<Opt(Cls({Rupee, "r"})), Star(WS),
                 Alt(Cat(<<Rep(Dg, 1, 3), Plus(Cat(<<Lit(<<",">>), Rep(Dg, 3, 3)>>))>>),
                     Cat(<<Plus(Dg), Lit(<<".">>), Rep(Dg, 2, 2)>>))>>))

\* [0-9]{1,2}/[0-9]{1,2}/[0-9]{2,4}
SlashDate == Cat(<<Rep(Dg, 1, 2), Lit(<<"/">>), Rep(Dg, 1, 2), Lit(<<"/">>), Rep(Dg, 2, 4)>>)

\* [A-Za-z0-9/\-]
DateChar == LowerAZ \cup UpperAZ \cup Digit \cup {"/", "-"}

\* ---------------- Bank 1 ----------------

\* (?:New\s*Balance)[:\s]*\$?([\d,]+(?:\.\d{2})?)
B1Balance == Cat(<<Lit(<<"N", "e", "w">>), Star(WS), Lit(<<"B", "a", "l", "a", "n", "c", "e">>),
        ColonWs, DollarAmount>>)

\* Payment\s*Due\s*Date[:\s]*([A-Za-z0-9/\-–]+)
B1DueDate ==
    Cat(<<Lit(<<"P", "a", "y", "m", "e", "n", "t">>), Star(WS), Lit(<<"D", "u", "e">>), Star(WS),
            Lit(<<"D", "a", "t", "e">>), ColonWs,
          Grp(1, Plus(Cls(DateChar \cup {EnDash})))>>)

\* Minimum\s*Payment(?:\s*Due)?[:\s]*\$?([\d,]+(?:\.\d{2})?)
B1MinPayment ==
    Cat(<<Lit(<<"M", "i", "n", "i", "m", "u", "m">>), Star(WS), Lit(<<"P", "a", "y", "m", "e", "n",
            "t">>), Opt(Cat(<<Star(WS), Lit(<<"D", "u", "e">>)>>)),
          ColonWs, DollarAmount>>)

\* Account\s*Number[:\s]*([\d\-\s]+)
B1Account ==
    Cat(<<Lit(<<"A", "c", "c", "o", "u", "n", "t">>), Star(WS), Lit(<<"N", "u", "m", "b", "e",
            "r">>), ColonWs,
          Grp(1, Plus(Cls(Digit \cup {"-"} \cup Space)))>>)

\* Opening/Closing\s*Date\s*([A-Za-z0-9/\-]+)\s*[–-]\s*([A-Za-z0-9/\-]+)
B1ClosingRange ==
    Cat(<<Lit(<<"O", "p", "e", "n", "i", "n", "g", "/", "C", "l", "o", "s", "i", "n", "g">>),
            Star(WS), Lit(<<"D", "a", "t", "e">>), Star(WS),
          Grp(1, Plus(Cls(DateChar))), Star(WS), Cls({EnDash, "-"}), Star(WS),
          Grp(2, Plus(Cls(DateChar)))>>)

\* LastOf taking the first match
FirstOf(m_all, out) ==
    IF m_all /= <<>> THEN Put(out, "total_balance", _clean_amount(m_all[1])) ELSE out

\* lines 54-56: the last of all matches
LastOf(m_all, out) ==
    IF m_all /= <<>> THEN Put(out, "total_balance", _clean_amount(m_all[Len(m_all)])) ELSE out

B1TotalBalance(t, out) == LastOf(FindAll(B1Balance, t, TRUE), out)

B1PaymentDueDate(t, out) ==
    PutStripped(out, "payment_due_date", t, Search(B1DueDate, t, TRUE), 1)

B1MinimumPayment(t, out) == PutAmount(out, "minimum_payment", t, Search(B1MinPayment, t, TRUE))

B1Last4(t, out) == PutLast4(out, "last4", t, Search(B1Account, t, TRUE))

B1StatementClosingDate(t, out) ==
    PutStripped(out, "statement_closing_date", t, Search(B1ClosingRange, t, TRUE), 2)

parse_bank_1(t) ==
    B1StatementClosingDate(t,
        B1Last4(t, B1MinimumPayment(t, B1PaymentDueDate(t, B1TotalBalance(t, EmptyFields)))))

\* ---------------- Bank 2 ----------------

\* Ending\s*Balance.*?\$([\d,]+(?:\.\d{2})?)   (DOTALL)
B2Balance ==
    Cat(<<Lit(<<"E", "n", "d", "i", "n", "g">>), Star(WS), Lit(<<"B", "a", "l", "a", "n", "c",
            "e">>), LazyRep(AnyChar, 0, Inf), Lit(<<"$">>),
          Grp(1, Amount)>>)

\* Primary\s*Account\s*Number[:\s#]*([0-9\s]+)
B2PrimaryAccount ==
    Cat(<<Lit(<<"P", "r", "i", "m", "a", "r", "y">>), Star(WS), Lit(<<"A", "c", "c", "o", "u", "n",
            "t">>), Star(WS), Lit(<<"N", "u", "m", "b", "e", "r">>),
          Star(Cls({":", "#"} \cup Space)), Grp(1, Plus(Cls(Digit \cup Space)))>>)

\* Account\s*[#No\.]?\s*[:#]*\s*([0-9\s]{6,})
B2Account ==
    Cat(<<Lit(<<"A", "c", "c", "o", "u", "n", "t">>), Star(WS), Opt(Cls({"#", "N", "o", "."})),
            Star(WS),
          Star(Cls({":", "#"})), Star(WS), Grp(1, Rep(Cls(Digit \cup Space), 6, Inf))>>)

\* Statement\s*Date[:\s]*([A-Za-z]+\s+\d{1,2},\s*\d{4})
B2StatementDate ==
    Cat(<<Lit(<<"S", "t", "a", "t", "e", "m", "e", "n", "t">>), Star(WS), Lit(<<"D", "a", "t",
            "e">>), ColonWs,
          Grp(1, Cat(<<Plus(Cls(LowerAZ \cup UpperAZ)), Plus(WS), Rep(Dg, 1, 2), Lit(<<",">>),
                       Star(WS), Rep(Dg, 4, 4)>>))>>)

B2TotalBalance(t, out) == PutAmount(out, "total_balance", t, Search(B2Balance, t, TRUE))

\* lines 98-100: the second pattern is tried when the first does not match
B2AccountMatch(t, m) == IF ~m.ok THEN Search(B2Account, t, TRUE) ELSE m

B2Last4(t, out) ==
    PutLast4(out, "last4", t, B2AccountMatch(t, Search(B2PrimaryAccount, t, TRUE)))

B2StatementClosingDate(t, out) ==
    PutStripped(out, "statement_closing_date", t, Search(B2StatementDate, t, TRUE), 1)

parse_bank_2(t) == B2StatementClosingDate(t, B2Last4(t, B2TotalBalance(t, EmptyFields)))

\* ---------------- Bank 3 ----------------

Bank3Window == 80

\* (?:Your\s+)?Total\s+Amount\s+Due\b
B3TotalLabel ==
    Cat(<<Opt(Cat(<<Lit(<<"Y", "o", "u", "r">>), Plus(WS)>>)), Lit(<<"T", "o", "t", "a", "l">>),
            Plus(WS), Lit(<<"A", "m", "o", "u", "n", "t">>),
          Plus(WS), Lit(<<"D", "u", "e">>), WordB>>)

\* (?:Your\s+)?Total\s+Amount\s+Due[\s\S]{0,60}?([₹r]?\s*[\d,]+(?:\.\d{2})?)
B3TotalFallback ==
    Cat(<<Opt(Cat(<<Lit(<<"Y", "o", "u", "r">>), Plus(WS)>>)), Lit(<<"T", "o", "t", "a", "l">>),
            Plus(WS), Lit(<<"A", "m", "o", "u", "n", "t">>),
          Plus(WS), Lit(<<"D", "u", "e">>), LazyRep(AnyChar, 0, 60),
          Grp(1, Cat(<<Opt(Cls({Rupee, "r"})), Star(WS), Amount>>))>>)

\* (?:Payment\s+)?Due\s*Date\s*:?\s*(?:\n|\s){0,20}?([0-9]{1,2}/[0-9]{1,2}/[0-9]{2,4})
B3DueDate ==
    Cat(<<Opt(Cat(<<Lit(<<"P", "a", "y", "m", "e", "n", "t">>), Plus(WS)>>)), Lit(<<"D", "u",
            "e">>), Star(WS), Lit(<<"D", "a", "t", "e">>),
          Star(WS), Opt(Lit(<<":">>)), Star(WS), LazyRep(Alt(Lit(<<NL>>), WS), 0, 20),
          Grp(1, SlashDate)>>)

\* Minimum\s+Amount\s+Due\b
B3MinLabel ==
    Cat(<<Lit(<<"M", "i", "n", "i", "m", "u", "m">>), Plus(WS), Lit(<<"A", "m", "o", "u", "n",
            "t">>), Plus(WS), Lit(<<"D", "u", "e">>), WordB>>)

\* Card\s*Number\s*:?\s*([0-9Xx\s]+)
B3Card ==
    Cat(<<Lit(<<"C", "a", "r", "d">>), Star(WS), Lit(<<"N", "u", "m", "b", "e", "r">>), Star(WS),
            Opt(Lit(<<":">>)), Star(WS),
          Grp(1, Plus(Cls(Digit \cup {"X", "x"} \cup Space)))>>)

\* Statement\s*Date\s*:?\s*([0-9]{1,2}/[0-9]{1,2}/[0-9]{2,4})
B3StatementDate ==
    Cat(<<Lit(<<"S", "t", "a", "t", "e", "m", "e", "n", "t">>), Star(WS), Lit(<<"D", "a", "t",
            "e">>), Star(WS), Opt(Lit(<<":">>)), Star(WS),
          Grp(1, SlashDate)>>)

\* lines 121-128: the windowed value, else the unanchored pattern
B3TotalFrom(t, out, v) ==
    IF Truthy(v) THEN Put(out, "total_balance", _clean_amount(v))
    ELSE PutAmount(out, "total_balance", t, Search(B3TotalFallback, t, TRUE))

B3TotalBalance(t, out) ==
    B3TotalFrom(t, out, _find_value_after_label(t, B3TotalLabel, RupeeAmount, Bank3Window))

B3PaymentDueDate(t, out) == PutGroup(out, "payment_due_date", t, Search(B3DueDate, t, TRUE))

B3MinimumPayment(t, out) ==
    PutCleanValue(out, "minimum_payment",
                  _find_value_after_label(t, B3MinLabel, RupeeAmount, Bank3Window))

B3Last4(t, out) == PutLast4(out, "last4", t, Search(B3Card, t, TRUE))

B3StatementClosingDate(t, out) ==
    PutGroup(out, "statement_closing_date", t, Search(B3StatementDate, t, TRUE))

parse_bank_3(t) ==
    B3StatementClosingDate(t,
        B3Last4(t, B3MinimumPayment(t, B3PaymentDueDate(t, B3TotalBalance(t, EmptyFields)))))

\* ---------------- Bank 4 ----------------

Bank4BalanceWindow == 30
Bank4MinWindow == 40

\* NEW\s+BALANCE\b
B4BalanceLabel == Cat(<<Lit(<<"N", "E", "W">>), Plus(WS), Lit(<<"B", "A", "L", "A", "N", "C",
        "E">>), WordB>>)

\* =\s*New\s*Balance\b
B4EqBalanceLabel ==
    Cat(<<Lit(<<"=">>), Star(WS), Lit(<<"N", "e", "w">>), Star(WS), Lit(<<"B", "a", "l", "a", "n",
            "c", "e">>), WordB>>)

\* PAYMENT\s*DUE\s*DATE\s*\n?\s*(\d{1,2}/\d{1,2}/\d{2,4})
B4DueDate ==
    Cat(<<Lit(<<"P", "A", "Y", "M", "E", "N", "T">>), Star(WS), Lit(<<"D", "U", "E">>), Star(WS),
            Lit(<<"D", "A", "T", "E">>), Star(WS),
          Opt(Lit(<<NL>>)), Star(WS), Grp(1, SlashDate)>>)

\* MINIMUM\s*PAYMENT\s*DUE\b
B4MinLabel ==
    Cat(<<Lit(<<"M", "I", "N", "I", "M", "U", "M">>), Star(WS), Lit(<<"P", "A", "Y", "M", "E", "N",
            "T">>), Star(WS), Lit(<<"D", "U", "E">>), WordB>>)

\* ACCOUNT\s*NUMBER\s*\n?\s*([\d\-\s]+)
B4Account ==
    Cat(<<Lit(<<"A", "C", "C", "O", "U", "N", "T">>), Star(WS), Lit(<<"N", "U", "M", "B", "E",
            "R">>), Star(WS), Opt(Lit(<<NL>>)), Star(WS),
          Grp(1, Plus(Cls(Digit \cup {"-"} \cup Space)))>>)

\* Closing\s*Date\s*\n?\s*([0-9/\-]+)
B4ClosingDate ==
    Cat(<<Lit(<<"C", "l", "o", "s", "i", "n", "g">>), Star(WS), Lit(<<"D", "a", "t", "e">>),
            Star(WS), Opt(Lit(<<NL>>)), Star(WS),
          Grp(1, Plus(Cls(Digit \cup {"/", "-"})))>>)

\* lines 160-162: the second label is tried when the first gives nothing
B4BalanceValue(t, v) ==
    IF ~Truthy(v)
    THEN _find_value_after_label(t, B4EqBalanceLabel, DollarAmount, Bank4BalanceWindow)
    ELSE v

B4TotalBalance(t, out) ==
    PutCleanValue(out, "total_balance",
        B4BalanceValue(t, _find_value_after_label(t, B4BalanceLabel, DollarAmount,
                                                  Bank4BalanceWindow)))

B4PaymentDueDate(t, out) == PutGroup(out, "payment_due_date", t, Search(B4DueDate, t, TRUE))

B4MinimumPayment(t, out) ==
    PutCleanValue(out, "minimum_payment",
                  _find_value_after_label(t, B4MinLabel, DollarAmount, Bank4MinWindow))

B4Last4(t, out) == PutLast4(out, "last4", t, Search(B4Account, t, TRUE))

B4StatementClosingDate(t, out) ==
    PutGroup(out, "statement_closing_date", t, Search(B4ClosingDate, t, TRUE))

parse_bank_4(t) ==
    B4StatementClosingDate(t,
        B4Last4(t, B4MinimumPayment(t, B4PaymentDueDate(t, B4TotalBalance(t, EmptyFields)))))

\* ---------------- Bank 5 ----------------

Bank5Window == 160

\* Total\s*Amount\s*Due\b
B5TotalLabel ==
    Cat(<<Lit(<<"T", "o", "t", "a", "l">>), Star(WS), Lit(<<"A", "m", "o", "u", "n", "t">>),
            Star(WS), Lit(<<"D", "u", "e">>), WordB>>)

\* Payment\s*Due\s*Date\b
B5DueLabel ==
    Cat(<<Lit(<<"P", "a", "y", "m", "e", "n", "t">>), Star(WS), Lit(<<"D", "u", "e">>), Star(WS),
            Lit(<<"D", "a", "t", "e">>), WordB>>)

\* Minimum\s*Amount\s*Due\b
B5MinLabel ==
    Cat(<<Lit(<<"M", "i", "n", "i", "m", "u", "m">>), Star(WS), Lit(<<"A", "m", "o", "u", "n",
            "t">>), Star(WS), Lit(<<"D", "u", "e">>), WordB>>)

\* Account\s*Number\s*:?\s*([\d\s]+)
B5Account ==
    Cat(<<Lit(<<"A", "c", "c", "o", "u", "n", "t">>), Star(WS), Lit(<<"N", "u", "m", "b", "e",
            "r">>), Star(WS), Opt(Lit(<<":">>)), Star(WS),
          Grp(1, Plus(Cls(Digit \cup Space)))>>)

\* Statement\s*Date\s*\n?\s*([0-9]{1,2}/[0-9]{1,2}/[0-9]{2,4})
B5StatementDate ==
    Cat(<<Lit(<<"S", "t", "a", "t", "e", "m", "e", "n", "t">>), Star(WS), Lit(<<"D", "a", "t",
            "e">>), Star(WS), Opt(Lit(<<NL>>)), Star(WS),
          Grp(1, SlashDate)>>)

B5TotalBalance(t, out) ==
    PutCleanValue(out, "total_balance",
                  _find_value_after_label(t, B5TotalLabel, RupeeAmount, Bank5Window))

B5PaymentDueDate(t, out) ==
    PutValue(out, "payment_due_date",
             _find_value_after_label(t, B5DueLabel, Grp(1, SlashDate), Bank5Window))

B5MinimumPayment(t, out) ==
    PutCleanValue(out, "minimum_payment",
                  _find_value_after_label(t, B5MinLabel, RupeeAmount, Bank5Window))

B5Last4(t, out) == PutLast4(out, "last4", t, Search(B5Account, t, TRUE))

B5StatementClosingDate(t, out) ==
    PutGroup(out, "statement_closing_date", t, Search(B5StatementDate, t, TRUE))

parse_bank_5(t) ==
    B5StatementClosingDate(t,
        B5Last4(t, B5MinimumPayment(t, B5PaymentDueDate(t, B5TotalBalance(t, EmptyFields)))))

\* --------------- Detection ----------------

\* the cue phrases, in the order detect_bank tests them
Cue1 == <<"b", "u", "i", "l", "d", "i", "n", "g", " ", "b", "l", "o", "c", "k", "s", " ", "s", "t",
        "u", "d", "e", "n", "t", " ", "h", "a", "n", "d", "o", "u", "t">>
Cue2a == <<"c", "o", "n", "n", "e", "c", "t", "i", "o", "n", "s", " ", "c", "h", "e", "c", "k",
        "i", "n", "g">>
Cue2b == <<"1", "0", "0", "0", " ", "w", "a", "l", "n", "u", "t">>
Cue3a == <<"i", "c", "i", "c", "i">>
Cue3b == <<"y", "o", "u", "r", " ", "t", "o", "t", "a", "l", " ", "a", "m", "o", "u", "n", "t",
        " ", "d", "u", "e">>
Cue4a == <<"s", "a", "m", "p", "l", "e", " ", "c", "r", "e", "d", "i", "t", " ", "c", "a", "r",
        "d", " ", "s", "t", "a", "t", "e", "m", "e", "n", "t">>
Cue4b == <<"g", "r", "e", "a", "t", " ", "l", "a", "k", "e", "s", " ", "h", "i", "g", "h", "e",
        "r", " ", "e", "d", "u", "c", "a", "t", "i", "o", "n">>
Cue5a == <<"i", "d", "f", "c", "b", "a", "n", "k">>
Cue5b == <<"c", "u", "s", "t", "o", "m", "e", "r", " ", "r", "e", "l", "a", "t", "i", "o", "n",
        "s", "h", "i", "p", " ", "n", "o", ".">>

\* detect_bank with the bank3 test ahead of the bank2 test
detect_bank_reordered(txt) ==
    LET t == Lower(txt)
    IN  IF Contains(t, Cue1) THEN "bank1"
        ELSE IF Contains(t, Cue3a) \/ Contains(t, Cue3b) THEN "bank3"
        ELSE IF Contains(t, Cue2a) \/ Contains(t, Cue2b) THEN "bank2"
        ELSE IF Contains(t, Cue4a) \/ Contains(t, Cue4b) THEN "bank4"
        ELSE IF Contains(t, Cue5a) \/ Contains(t, Cue5b) THEN "bank5"
        ELSE "None"

detect_bank(txt) ==
    LET t == Lower(txt)
    IN  IF Contains(t, Cue1) THEN "bank1"
        ELSE IF Contains(t, Cue2a) \/ Contains(t, Cue2b) THEN "bank2"
        ELSE IF Contains(t, Cue3a) \/ Contains(t, Cue3b) THEN "bank3"
        ELSE IF Contains(t, Cue4a) \/ Contains(t, Cue4b) THEN "bank4"
        ELSE IF Contains(t, Cue5a) \/ Contains(t, Cue5b) THEN "bank5"
        ELSE "None"

\* ---------------------------------------------------------- extract.py

\* An exception: its class, str(e) and the exceptions chained to it
\* (__cause__ and __context__).
Exc(type, msg) == [type |-> type, msg |-> msg, chain |-> {}]

NoExc == Exc("None", "")

FitzMissing == Exc("ImportError", "PyMuPDF (fitz) is not installed")
FitzOpenFailed == Exc("FileDataError", "cannot open broken document")
FitzBadPassword == Exc("PermissionError", "Incorrect password for encrypted PDF (PyMuPDF)")
PlumberMissing == Exc("ImportError", "pdfplumber is not installed")
PlumberOpenFailed == Exc("PDFSyntaxError", "No /Root object! - Is this really a PDF?")
PlumberBadPassword == Exc("PDFPasswordIncorrect", "")

\* raise ValueError(...) at the end of extract_text: no "from", and raised
\* outside the except blocks, so nothing is chained to it
ExtractionFailed ==
    Exc("ValueError", "Failed to extract text from PDF using both PyMuPDF and pdfplumber.")

Raised(e) == [raised |-> TRUE, exc |-> e, value |-> <<>>]
Returned(v) == [raised |-> FALSE, exc |-> NoExc, value |-> v]

\* sep.join(pages)
RECURSIVE Join(_, _)
Join(pages, sep) ==
    IF pages = <<>> THEN <<>>
    ELSE IF Len(pages) = 1 THEN pages[1]
    ELSE pages[1] \o sep \o Join(Tail(pages), sep)

\* A document on disk: whether each library can open it, the user password
\* it is encrypted with (NoPassword when it is not encrypted), and the page
\* texts each library extracts (pdfplumber gives None for an image-only page).
NoPassword == "<not encrypted>"

\* doc.needs_pass and doc.authenticate(password)
NeedsPass(doc) == doc.password /= NoPassword

Authenticate(doc, password) == doc.password = password

_extract_with_pymupdf(fitzInstalled, doc, password) ==
    IF ~fitzInstalled THEN Raised(FitzMissing)
    ELSE IF ~doc.fitzOpens THEN Raised(FitzOpenFailed)
    ELSE IF NeedsPass(doc) /\ ~Authenticate(doc, password) THEN Raised(FitzBadPassword)
    ELSE Returned(Strip(Join(doc.fitzPages, <<NL, NL>>)))

_extract_with_pdfplumber(plumberInstalled, doc, password) ==
    IF ~plumberInstalled THEN Raised(PlumberMissing)
    ELSE IF ~doc.plumberOpens THEN Raised(PlumberOpenFailed)
    ELSE IF NeedsPass(doc) /\ ~Authenticate(doc, password) THEN Raised(PlumberBadPassword)
    ELSE LET pages == [i \in 1..Len(doc.plumberPages) |->
                          IF doc.plumberPages[i] = None THEN <<>> ELSE doc.plumberPages[i]]
         IN  Returned(Strip(Join(pages, <<NL, NL>>)))

\* Usable as "if text is not None"
UsableNotNone(r) == ~r.raised

\* "if text: return text" after an engine call
Usable(r) == ~r.raised /\ r.value /= <<>>

\* ------------------------------------------------------- orchestrator.py

NoneBank == "None"

\* {"bank": bank, **data} and the dict union it stands for
Merge(d1, d2) == [x \in (DOMAIN d1) \cup (DOMAIN d2) |-> IF x \in DOMAIN d2 THEN d2[x] ELSE d1[x]]

\* detect_bank(text) or "unknown"
Classify(t) == LET b == detect_bank(t) IN IF b = NoneBank THEN "unknown" ELSE b

\* Routine with the bank3 branch calling the bank5 routine
RoutineMixedUp(bank) ==
    IF bank = "bank1" THEN "parse_bank_1"
    ELSE IF bank = "bank2" THEN "parse_bank_2"
    ELSE IF bank = "bank3" THEN "parse_bank_5"
    ELSE IF bank = "bank4" THEN "parse_bank_4"
    ELSE IF bank = "bank5" THEN "parse_bank_5"
    ELSE ""

\* the if/elif chain: the routine called for a bank id, "" when none is
Routine(bank) ==
    IF bank = "bank1" THEN "parse_bank_1"
    ELSE IF bank = "bank2" THEN "parse_bank_2"
    ELSE IF bank = "bank3" THEN "parse_bank_3"
    ELSE IF bank = "bank4" THEN "parse_bank_4"
    ELSE IF bank = "bank5" THEN "parse_bank_5"
    ELSE ""

Call(routine, t) ==
    CASE routine = "parse_bank_1" -> parse_bank_1(t)
      [] routine = "parse_bank_2" -> parse_bank_2(t)
      [] routine = "parse_bank_3" -> parse_bank_3(t)
      [] routine = "parse_bank_4" -> parse_bank_4(t)
      [] routine = "parse_bank_5" -> parse_bank_5(t)
      [] OTHER -> EmptyFields

\* line 37 and what was called on the way to it
Assemble(bank, routine, data) ==
    [record |-> Merge(Put(<<>>, "bank", bank), data),
     called |-> <<"detect_bank">> \o (IF routine = "" THEN <<>> ELSE <<routine>>)]

Dispatch(bank, routine, t) == Assemble(bank, routine, Call(routine, t))

Route(bank, t) == Dispatch(bank, Routine(bank), t)

\* identify_and_parse: the record it returns and the functions it called
identify_and_parse(t) == Route(Classify(t), t)

\* ---------------------------------------------------------------- main.py

\* ErrorRecord without the traceability key
ErrorRecordNoSource(pdf_path, e) == Put(Put(EmptyFields, "bank", NoneBank), "error", e.msg)

\* the record collect_results appends in its except branch
ErrorRecord(pdf_path, e) ==
    Put(Put(Put(EmptyFields, "bank", NoneBank), "source_file", pdf_path), "error", e.msg)

\* sorted(folder.glob("*.pdf"))
Sorted(paths) == SortSeq(paths, LAMBDA a, b : a < b)

\* ------------------------------------------------------------ the inputs

MaxDocs == 2

Paths == 1..MaxDocs

\* every order in which glob may yield the files of a folder
GlobOrders(files) ==
    {s \in [1..Cardinality(files) -> files] : \A i, j \in DOMAIN s : i /= j => s[i] /= s[j]}

PageBank1a == <<"B", "u", "i", "l", "d", "i", "n", "g", " ", "B", "l", "o", "c", "k", "s", " ",
        "S", "t", "u", "d", "e", "n", "t", " ", "H", "a", "n", "d", "o", "u", "t", NL, "N", "e",
                "w", " ", "B", "a", "l", "a", "n", "c", "e", " ", "$", "1", ",", "2", "0", "0",
                        ".", "0", "0", NL, "A", "c", "c", "o", "u", "n", "t", " ", "N", "u", "m",
                                "b", "e", "r", ":", " ", "1", "2", "3", "4", "-", "5", "6", "7",
                                        "8">>
PageBank1b == <<"P", "a", "y", "m", "e", "n", "t", " ", "D", "u", "e", " ", "D", "a", "t", "e",
        " ", "2", "/", "2", "8", "/", "2", "4", NL, "N", "e", "w", " ", "B", "a", "l", "a", "n",
                "c", "e", ":", " ", "$", "1", ",", "2", "5", "0", ".", "5", "0", " ">>
PageBank2 == <<"C", "o", "n", "n", "e", "c", "t", "i", "o", "n", "s", " ", "C", "h", "e", "c", "k",
        "i", "n", "g", NL, "E", "n", "d", "i", "n", "g", " ", "B", "a", "l", "a", "n", "c", "e",
                " ", "$", "3", ".", "0", "0">>
PageBank3 == <<"I", "C", "I", "C", "I", " ", "B", "a", "n", "k", " ", "i", "d", "f", "c", "b", "a",
        "n", "k", NL, "Y", "o", "u", "r", " ", "T", "o", "t", "a", "l", " ", "A", "m", "o", "u",
                "n", "t", " ", "D", "u", "e", " ", "1", ",", "2", "3", "4", ".", "0", "0">>
PageBank4 == <<"S", "a", "m", "p", "l", "e", " ", "C", "r", "e", "d", "i", "t", " ", "C", "a", "r",
        "d", " ", "S", "t", "a", "t", "e", "m", "e", "n", "t", NL, "N", "E", "W", " ", "B", "A",
                "L", "A", "N", "C", "E", " ", "$", "4", "5", ".", "0", "0">>
PageBank5 == <<"C", "u", "s", "t", "o", "m", "e", "r", " ", "R", "e", "l", "a", "t", "i", "o", "n",
        "s", "h", "i", "p", " ", "N", "o", ".", " ", "7", "7", NL, "T", "o", "t", "a", "l", " ",
                "A", "m", "o", "u", "n", "t", " ", "D", "u", "e", " ", "r", " ", "5", ",", "0",
                        "0", "0", ".", "0", "0", " ", "C", "R">>
PageNoCue == <<"A", "c", "c", "o", "u", "n", "t", " ", "N", "u", "m", "b", "e", "r", ":", " ", "1",
        "2", "3", "4", "-", "5", "6", "7", "8", NL, "N", "e", "w", " ", "B", "a", "l", "a", "n",
                "c", "e", " ", "$", "1", "0", ".", "0", "0">>
PageBlank == <<" ", NL>>

SamePages(pages) == [fitz |-> pages, plumber |-> pages]

\* what the two libraries extract from a file: the same text, nothing from
\* a scanned file, or text from one of them only
Contents ==
    {SamePages(<<PageBank1a, PageBank1b>>), SamePages(<<PageBank2>>), SamePages(<<PageBank3>>),
     SamePages(<<PageBank5>>), SamePages(<<PageNoCue>>), SamePages(<<>>),
     [fitz |-> <<<<>>, PageBlank>>, plumber |-> <<None, None>>],
     [fitz |-> <<PageBlank>>, plumber |-> <<None, PageBank4>>],
     [fitz |-> <<PageNoCue>>, plumber |-> <<None>>]}

Documents ==
    {[fitzOpens |-> fo, plumberOpens |-> po, password |-> pw,
      fitzPages |-> c.fitz, plumberPages |-> c.plumber] :
        fo \in BOOLEAN, po \in BOOLEAN, pw \in {NoPassword, "", "secret"}, c \in Contents}

NoDoc ==
    [fitzOpens |-> FALSE, plumberOpens |-> FALSE, password |-> NoPassword,
     fitzPages |-> <<>>, plumberPages |-> <<>>]

\* ------------------------------------------------------------- the state

VARIABLES
    pc,         \* where the program is
    folder,     \* the pdf files of the folder, by path
    fitz,       \* whether "import fitz" succeeded
    pdfplumber, \* whether "import pdfplumber" succeeded
    globbed,    \* what folder.glob("*.pdf") yields, in its order
    queue,      \* the paths the for loop has still to visit
    pdf_path,   \* the loop variable
    doc,        \* the file at pdf_path
    text,       \* the text under processing
    calls,      \* the functions called for the current document, in order
    cause1,     \* how the primary engine failed for the current document
    cause2,     \* how the secondary engine failed for the current document
    exc,        \* the exception in flight
    results,    \* collect_results' list
    raisedFor,  \* the paths whose process_pdf call raised
    reported,   \* the last failure extract_text raised for a rejected password
                \* and for a document without content
    input,      \* how the text of a single call was put together
    out         \* what a single call returned

vars == <<pc, folder, fitz, pdfplumber, globbed, queue, pdf_path, doc, text, calls, cause1, cause2,
        exc,
        results, raisedFor, reported, input, out>>

batchVars == <<folder, fitz, pdfplumber, globbed, queue, pdf_path, doc, calls, cause1, cause2, exc,
        results, raisedFor, reported>>

NoReport == [auth |-> NoExc, absent |-> NoExc]

NoInput == [kind |-> "none"]

\* the failure of an engine that returned empty text
EmptyText == Exc("empty", "")

BatchIdle ==
    /\ queue = <<>>
    /\ pdf_path = 0
    /\ doc = NoDoc
    /\ calls = <<>>
    /\ cause1 = NoExc
    /\ cause2 = NoExc
    /\ exc = NoExc
    /\ results = <<>>
    /\ raisedFor = {}
    /\ reported = NoReport

\* ---------------------------------------------------- collect_results

Init ==
    /\ pc = "glob"
    /\ fitz \in BOOLEAN
    /\ pdfplumber \in BOOLEAN
    /\ folder \in SUBSET Paths
    /\ globbed \in GlobOrders(folder)
    /\ BatchIdle
    /\ text = <<>>
    /\ input = NoInput
    /\ out = None

\* results = []; sorted(folder.glob("*.pdf"))
Glob ==
    /\ pc = "glob"
    /\ queue' = Sorted(globbed)
    /\ globbed' = <<>>
    /\ pc' = "for"
    /\ UNCHANGED <<folder, fitz, pdfplumber, pdf_path, doc, text, calls, cause1, cause2, exc,
                   results, raisedFor, reported, input, out>>

\* the head of the for loop: the next path, and process_pdf opening its file
NextPdf ==
    /\ pc = "for"
    /\ queue /= <<>>
    /\ pdf_path' = Head(queue)
    /\ queue' = Tail(queue)
    /\ doc' \in Documents
    /\ calls' = <<>>
    /\ cause1' = NoExc
    /\ cause2' = NoExc
    /\ text' = <<>>
    /\ pc' = "pymupdf"
    /\ UNCHANGED <<folder, fitz, pdfplumber, globbed, exc, results, raisedFor, reported, input,
            out>>

\* return results
Return ==
    /\ pc = "for"
    /\ queue = <<>>
    /\ pc' = "done"
    /\ UNCHANGED <<folder, fitz, pdfplumber, globbed, queue, pdf_path, doc, text, calls, cause1,
            cause2,
                   exc, results, raisedFor, reported, input, out>>

\* extract_text, lines 67-73: the primary engine
TryPymupdf ==
    /\ pc = "pymupdf"
    /\ LET r == _extract_with_pymupdf(fitz, doc, "")
       IN  /\ calls' = Append(calls, "_extract_with_pymupdf")
           /\ IF Usable(r)
              THEN /\ text' = r.value
                   /\ doc' = NoDoc
                   /\ pc' = "parse"
                   /\ UNCHANGED cause1
              ELSE /\ cause1' = (IF r.raised THEN r.exc ELSE EmptyText)
                   /\ pc' = "pdfplumber"
                   /\ UNCHANGED <<text, doc>>
    /\ UNCHANGED <<folder, fitz, pdfplumber, globbed, queue, pdf_path, cause2, exc, results,
            raisedFor,
                   reported, input, out>>

\* the ValueError extract_text raises, given how the two engines failed
Failure(c1, c2) == ExtractionFailed

\* what the failure adds to the record of reported failures
Report(rep, c1, c2, e) ==
    IF c1 = FitzBadPassword \/ c2 = PlumberBadPassword THEN [rep EXCEPT !.auth = e]
    ELSE IF c1 = EmptyText /\ c2 = EmptyText THEN [rep EXCEPT !.absent = e]
    ELSE rep

\* extract_text, lines 76-83: the fallback engine, and the raise
TryPdfplumber ==
    /\ pc = "pdfplumber"
    /\ LET r == _extract_with_pdfplumber(pdfplumber, doc, "")
           c2 == IF r.raised THEN r.exc ELSE EmptyText
       IN  /\ calls' = Append(calls, "_extract_with_pdfplumber")
           /\ doc' = NoDoc
           /\ IF Usable(r)
              THEN /\ text' = r.value
                   /\ pc' = "parse"
                   /\ UNCHANGED <<cause2, exc, raisedFor, reported>>
              ELSE /\ cause2' = c2
                   /\ exc' = Failure(cause1, c2)
                   /\ raisedFor' = raisedFor \cup {pdf_path}
                   /\ reported' = Report(reported, cause1, c2, Failure(cause1, c2))
                   /\ pc' = "raised"
                   /\ UNCHANGED text
    /\ UNCHANGED <<folder, fitz, pdfplumber, globbed, queue, pdf_path, cause1, results, input, out>>

\* process_pdf, lines 47-50, and results.append(data)
ParseAndAppend ==
    /\ pc = "parse"
    /\ LET r == identify_and_parse(text)
       IN  /\ calls' = calls \o r.called
           /\ results' = Append(results, Put(r.record, "source_file", pdf_path))
    /\ pc' = "for"
    /\ UNCHANGED <<folder, fitz, pdfplumber, globbed, queue, pdf_path, doc, text, cause1, cause2,
            exc,
                   raisedFor, reported, input, out>>

\* "except Exception as e" in collect_results
Catch ==
    /\ pc = "raised"
    /\ results' = Append(results, ErrorRecord(pdf_path, exc))
    /\ exc' = NoExc
    /\ pc' = "for"
    /\ UNCHANGED <<folder, fitz, pdfplumber, globbed, queue, pdf_path, doc, text, calls, cause1,
            cause2,
                   raisedFor, reported, input, out>>

Next == Glob \/ NextPdf \/ Return \/ TryPymupdf \/ TryPdfplumber \/ ParseAndAppend \/ Catch

Spec == Init /\ [][Next]_vars

\* ------------------------------------------------ single calls: inputs

\* every sequence of at most n chunk numbers out of 1..k
ChunkSeqs(k, n) == UNION {[1..m -> 1..k] : m \in 0..n}

\* the texts of the chunks numbered ids, one after the other
RECURSIVE Concat(_, _)
Concat(chunks, ids) ==
    IF ids = <<>> THEN <<>> ELSE chunks[Head(ids)].s \o Concat(chunks, Tail(ids))

SingleCall ==
    /\ folder = {}
    /\ fitz = TRUE
    /\ pdfplumber = TRUE
    /\ globbed = <<>>
    /\ BatchIdle
    /\ out = None

\* ---- the classifier on texts made of cue phrases

MaxCues == 2

\* a phrase and the bank whose cue it is (0: no cue)
CueChunks ==
    <<[bank |-> 1, s |-> <<"B", "u", "i", "l", "d", "i", "n", "g", " ", "B", "l", "o", "c", "k",
            "s", " ", "S", "t", "u", "d", "e", "n", "t", " ", "H", "a", "n", "d", "o", "u", "t">>],
      [bank |-> 2, s |-> <<"C", "O", "N", "N", "E", "C", "T", "I", "O", "N", "S", " ", "C", "H",
              "E", "C", "K", "I", "N", "G">>],
      [bank |-> 2, s |-> <<"1", "0", "0", "0", " ", "W", "a", "l", "n", "u", "t">>],
      [bank |-> 3, s |-> <<"I", "C", "I", "C", "I">>],
      [bank |-> 3, s |-> <<"Y", "o", "u", "r", " ", "T", "o", "t", "a", "l", " ", "A", "m", "o",
              "u", "n", "t", " ", "D", "u", "e">>],
      [bank |-> 4, s |-> <<"S", "a", "m", "p", "l", "e", " ", "C", "r", "e", "d", "i", "t", " ",
              "C", "a", "r", "d", " ", "S", "t", "a", "t", "e", "m", "e", "n", "t">>],
      [bank |-> 4, s |-> <<"G", "r", "e", "a", "t", " ", "L", "a", "k", "e", "s", " ", "H", "i",
              "g", "h", "e", "r", " ", "E", "d", "u", "c", "a", "t", "i", "o", "n">>],
      [bank |-> 5, s |-> <<"i", "d", "f", "c", "b", "a", "n", "k">>],
      [bank |-> 5, s |-> <<"C", "u", "s", "t", "o", "m", "e", "r", " ", "R", "e", "l", "a", "t",
              "i", "o", "n", "s", "h", "i", "p", " ", "N", "o", ".">>],
      [bank |-> 0, s |-> <<" ", "s", "t", "a", "t", "e", "m", "e", "n", "t", " ", "o", "f", " ",
              "a", "c", "c", "o", "u", "n", "t", NL>>],
      [bank |-> 0, s |-> <<"T", "o", "t", "a", "l", " ", "A", "m", "o", "u", "n", "t", " ", "D",
              "u", "e", " ", "1", "0", "0", "0", " ", "W", "a", "l", " ", "n", "u", "t">>]>>

InitClassify ==
    /\ pc = "classify"
    /\ input \in {[kind |-> "cues", ids |-> ids] : ids \in ChunkSeqs(Len(CueChunks), MaxCues)}
    /\ text = Concat(CueChunks, input.ids)
    /\ SingleCall

\* orchestrator.py line 22
ClassifyText ==
    /\ pc = "classify"
    /\ out' = Classify(text)
    /\ pc' = "classified"
    /\ UNCHANGED <<folder, fitz, pdfplumber, globbed, queue, pdf_path, doc, text, calls, cause1,
                   cause2, exc, results, raisedFor, reported, input>>

SpecClassify == InitClassify /\ [][ClassifyText]_vars

\* ---- the five routines on texts made of labelled fields

MaxFields == 2

FieldChunks ==
    <<[s |-> <<"N", "e", "w", " ", "B", "a", "l", "a", "n", "c", "e", ":", " ", "$", "1", ",", "2",
            "3", "4", ".", "5", "6", NL>>],
      [s |-> <<"P", "a", "y", "m", "e", "n", "t", " ", "D", "u", "e", " ", "D", "a", "t", "e", ":",
              " ", "0", "1", "/", "0", "2", "/", "2", "0", "2", "4", NL>>],
      [s |-> <<"M", "i", "n", "i", "m", "u", "m", " ", "P", "a", "y", "m", "e", "n", "t", " ", "D",
              "u", "e", " ", "$", "2", "5", ".", "0", "0", NL>>],
      [s |-> <<"A", "c", "c", "o", "u", "n", "t", " ", "N", "u", "m", "b", "e", "r", ":", " ", "1",
              "2", "3", "4", "-", "5", "6", "7", "-", "8", "9", "0", NL>>],
      [s |-> <<"S", "t", "a", "t", "e", "m", "e", "n", "t", " ", "D", "a", "t", "e", ":", " ", "5",
              "/", "1", "/", "2", "4", NL>>],
      [s |-> <<"T", "o", "t", "a", "l", " ", "A", "m", "o", "u", "n", "t", " ", "D", "u", "e", " ",
              Rupee, " ", "1", ",", "2", "3", "4", ".", "5", "6", " ", "C", "R", NL>>],
      [s |-> <<"C", "a", "r", "d", " ", "N", "u", "m", "b", "e", "r", " ", ":", " ", "4", "3", "7",
              "5", " ", "X", "X", "X", "X", " ", "X", "X", "X", "X", " ", "8", "0", "0", "7", NL>>],
      [s |-> <<"E", "n", "d", "i", "n", "g", " ", "B", "a", "l", "a", "n", "c", "e", " ", "$", "3",
              ",", "4", "5", "6", ".", "7", "8", " ", "A", "c", "c", "o", "u", "n", "t", " ", "#",
                      " ", "1", "2", " ", "3", NL>>],
      [s |-> <<"O", "p", "e", "n", "i", "n", "g", "/", "C", "l", "o", "s", "i", "n", "g", " ", "D",
              "a", "t", "e", " ", "0", "1", "/", "0", "2", "/", "2", "0", "2", "4", " ", EnDash,
                      " ", "0", "1", "/", "3", "1", "/", "2", "0", "2", "4", NL>>]>>

InitParse ==
    /\ pc = "parse"
    /\ input \in {[kind |-> "fields", ids |-> ids] :
                      ids \in ChunkSeqs(Len(FieldChunks), MaxFields)}
    /\ text = Concat(FieldChunks, input.ids)
    /\ SingleCall

Parsed(routine, data) ==
    /\ pc = "parse"
    /\ out' = data
    /\ calls' = <<routine>>
    /\ pc' = "parsed"
    /\ UNCHANGED <<folder, fitz, pdfplumber, globbed, queue, pdf_path, doc, text, cause1, cause2,
                   exc, results, raisedFor, reported, input>>

ParseBank1 == Parsed("parse_bank_1", parse_bank_1(text))

ParseBank2 == Parsed("parse_bank_2", parse_bank_2(text))

ParseBank3 == Parsed("parse_bank_3", parse_bank_3(text))

ParseBank4 == Parsed("parse_bank_4", parse_bank_4(text))

ParseBank5 == Parsed("parse_bank_5", parse_bank_5(text))

NextParse == ParseBank1 \/ ParseBank2 \/ ParseBank3 \/ ParseBank4 \/ ParseBank5

SpecParse == InitParse /\ [][NextParse]_vars

\* ---- the bank1 routine on statements with repeated labels

MaxLines == 3

\* a line of a statement, the field it gives and the value the field has
Bank1Lines ==
    <<[field |-> "total_balance", value |-> <<"1", ",", "2", "0", "0", ".", "0", "0">>,
            s |-> <<"N", "e", "w", " ", "B", "a", "l", "a", "n", "c", "e", " ", "$", "1", ",", "2",
                    "0", "0", ".", "0", "0", NL>>],
      [field |-> "total_balance", value |-> <<"8", "8">>, s |-> <<"N", "E", "W", " ", " ", "B",
              "A", "L", "A", "N", "C", "E", ":", "$", "8", "8", NL>>],
      [field |-> "payment_due_date", value |-> <<"2", "/", "2", "8", "/", "2", "4">>,
       s |-> <<"P", "a", "y", "m", "e", "n", "t", " ", "D", "u", "e", " ", "D", "a", "t", "e", ":",
               " ", "2", "/", "2", "8", "/", "2", "4", NL>>],
      [field |-> "payment_due_date", value |-> <<"0", "3", "-", "1", "5", "-", "2", "0", "2", "4">>,
       s |-> <<"p", "a", "y", "m", "e", "n", "t", " ", "d", "u", "e", " ", "d", "a", "t", "e", " ",
               "0", "3", "-", "1", "5", "-", "2", "0", "2", "4", NL>>],
      [field |-> "minimum_payment", value |-> <<"2", "5", ".", "0", "0">>, s |-> <<"M", "i", "n",
              "i", "m", "u", "m", " ", "P", "a", "y", "m", "e", "n", "t", " ", "D", "u", "e", " ",
                      "$", "2", "5", ".", "0", "0", NL>>],
      [field |-> "minimum_payment", value |-> <<"3", "0">>, s |-> <<"M", "i", "n", "i", "m", "u",
              "m", " ", "P", "a", "y", "m", "e", "n", "t", ":", " ", "3", "0", NL>>],
      [field |-> "last4", value |-> <<"5", "6", "7", "8">>, s |-> <<"A", "c", "c", "o", "u", "n",
              "t", " ", "N", "u", "m", "b", "e", "r", ":", " ", "1", "2", "3", "4", "-", "5", "6",
                      "7", "8", NL>>],
      [field |-> "last4", value |-> <<"4", "3", "2", "1">>, s |-> <<"A", "c", "c", "o", "u", "n",
              "t", " ", "N", "u", "m", "b", "e", "r", " ", "8", "7", "6", "5", " ", "4", "3", "2",
                      "1", NL>>]>>

InitBank1 ==
    /\ pc = "parse"
    /\ input \in {[kind |-> "lines", ids |-> ids] : ids \in ChunkSeqs(Len(Bank1Lines), MaxLines)}
    /\ text = Concat(Bank1Lines, input.ids)
    /\ SingleCall

SpecBank1 == InitBank1 /\ [][ParseBank1]_vars

\* ---- the bank1 routine on a labelled date range

MaxPad == 1

RangeDates == <<<<"0", "1", "/", "0", "2", "/", "2", "0", "2", "4">>, <<"0", "1", "-", "3", "1",
        "-", "2", "0", "2", "4">>, <<"F", "e", "b", "3">>>>

RangeSeps == <<"-", EnDash>>

Pad(n) == [i \in 1..n |-> " "]

RangeText(x, lpad, sep, rpad, y) ==
    <<"S", "t", "a", "t", "e", "m", "e", "n", "t", NL, "O", "p", "e", "n", "i", "n", "g", "/", "C",
            "l", "o", "s", "i", "n", "g", " ", "D", "a", "t", "e",
                    " ">> \o RangeDates[x] \o Pad(lpad) \o <<RangeSeps[sep]>>
        \o Pad(rpad) \o RangeDates[y] \o <<NL, "N", "e", "w", " ", "B", "a", "l", "a", "n", "c",
                "e", " ", "$", "5", ".", "0", "0">>

InitRange ==
    /\ pc = "parse"
    /\ input \in {[kind |-> "range", x |-> x, lpad |-> lp, sep |-> sp, rpad |-> rp, y |-> y] :
                      x \in DOMAIN RangeDates, lp \in 0..MaxPad, sp \in DOMAIN RangeSeps,
                      rp \in 0..MaxPad, y \in DOMAIN RangeDates}
    /\ text = RangeText(input.x, input.lpad, input.sep, input.rpad, input.y)
    /\ SingleCall

SpecRange == InitRange /\ [][ParseBank1]_vars

\* ---- the windowed search at the call sites of the routines

MaxNear == 8

\* a call site: its patterns and window, and a label and a value they match
Sites ==
    <<[label_pattern |-> B3TotalLabel, value_pattern |-> RupeeAmount, window |-> Bank3Window,
       label |-> <<"Y", "o", "u", "r", " ", "T", "o", "t", "a", "l", " ", "A", "m", "o", "u", "n",
               "t", " ", "D", "u", "e">>, value |-> <<Rupee, " ", "1", ",", "2", "3", "4", ".",
                       "5", "6">>, core |-> <<Rupee, " ", "1", ",", "2", "3", "4">>],
      [label_pattern |-> B3MinLabel, value_pattern |-> RupeeAmount, window |-> Bank3Window,
       label |-> <<"M", "i", "n", "i", "m", "u", "m", " ", "A", "m", "o", "u", "n", "t", " ", "D",
               "u", "e">>, value |-> <<"r", " ", "1", "0", "0", ".", "0", "0">>, core |-> <<"r",
                       " ", "1", "0", "0", ".", "0", "0">>],
      [label_pattern |-> B4BalanceLabel, value_pattern |-> DollarAmount,
       window |-> Bank4BalanceWindow,
       label |-> <<"N", "E", "W", " ", "B", "A", "L", "A", "N", "C", "E">>, value |-> <<"$", "1",
               ",", "2", "3", "4", ".", "5", "6">>, core |-> <<"1", ",", "2", "3", "4", ".", "5",
                       "6">>],
      [label_pattern |-> B4EqBalanceLabel, value_pattern |-> DollarAmount,
       window |-> Bank4BalanceWindow,
       label |-> <<"=", " ", "N", "e", "w", " ", "B", "a", "l", "a", "n", "c", "e">>,
               value |-> <<"$", "4", "5", ".", "0", "0">>, core |-> <<"4", "5", ".", "0", "0">>],
      [label_pattern |-> B4MinLabel, value_pattern |-> DollarAmount, window |-> Bank4MinWindow,
       label |-> <<"M", "I", "N", "I", "M", "U", "M", " ", "P", "A", "Y", "M", "E", "N", "T", " ",
               "D", "U", "E">>, value |-> <<"$", "2", "5", ".", "0", "0">>, core |-> <<"2", "5",
                       ".", "0", "0">>],
      [label_pattern |-> B5TotalLabel, value_pattern |-> RupeeAmount, window |-> Bank5Window,
       label |-> <<"T", "o", "t", "a", "l", " ", "A", "m", "o", "u", "n", "t", " ", "D", "u",
               "e">>, value |-> <<Rupee, "5", ",", "0", "0", "0", ".", "0", "0">>,
                       core |-> <<Rupee, "5", ",", "0", "0", "0">>],
      [label_pattern |-> B5DueLabel, value_pattern |-> Grp(1, SlashDate),
       window |-> Bank5Window,
       label |-> <<"P", "a", "y", "m", "e", "n", "t", " ", "D", "u", "e", " ", "D", "a", "t",
               "e">>, value |-> <<"1", "5", "/", "0", "2", "/", "2", "0", "2", "4">>,
                       core |-> <<"1", "5", "/", "0", "2", "/", "2", "0", "2", "4">>],
      [label_pattern |-> B5MinLabel, value_pattern |-> RupeeAmount, window |-> Bank5Window,
       label |-> <<"M", "i", "n", "i", "m", "u", "m", " ", "A", "m", "o", "u", "n", "t", " ", "D",
               "u", "e">>, value |-> <<"2", "5", "0", ".", "0", "0">>, core |-> <<"2", "5", "0",
                       ".", "0", "0">>]>>

\* the gaps tried between a label and a value: short ones, and those that
\* put the value around the end of the window
Gaps(window) == (1..MaxNear) \cup ((window - MaxNear)..(window + MaxNear))

\* n characters that belong to no label and no value
Fill(n) == [i \in 1..n |-> IF i = 1 THEN " " ELSE "."]

Shapes == {"nolabel", "single", "relabel"}

FirstLine == <<"S", "t", "a", "t", "e", "m", "e", "n", "t", ".", NL>>

\* the text of an input, and where in it the first label ends (0-based, as
\* m.end()) and the value starts
WindowText(site, shape, gap) ==
    LET c == Sites[site]
    IN  CASE shape = "nolabel" -> FirstLine \o Fill(gap) \o c.value \o <<NL>>
          [] shape = "single" -> FirstLine \o c.label \o Fill(gap) \o c.value \o <<NL>>
          [] shape = "relabel" ->
               FirstLine \o c.label \o Fill(gap) \o c.label \o <<" ">> \o c.value \o <<NL>>

LabelEnd(site) == Len(FirstLine) + Len(Sites[site].label)

\* how far after the end of the first label the value starts
Distance(site, shape, gap) ==
    IF shape = "relabel" THEN gap + Len(Sites[site].label) + 1 ELSE gap

InitWindow ==
    /\ pc = "find"
    /\ input \in {[kind |-> "window", site |-> st, shape |-> sh, gap |-> gp] :
                      st \in DOMAIN Sites, sh \in Shapes, gp \in 1..(Bank5Window + MaxNear)}
    /\ input.gap \in Gaps(Sites[input.site].window)
    /\ text = WindowText(input.site, input.shape, input.gap)
    /\ SingleCall

FindValueAfterLabel ==
    /\ pc = "find"
    /\ out' = _find_value_after_label(text, Sites[input.site].label_pattern,
                                      Sites[input.site].value_pattern,
                                      Sites[input.site].window)
    /\ pc' = "found"
    /\ UNCHANGED <<folder, fitz, pdfplumber, globbed, queue, pdf_path, doc, text, calls, cause1,
                   cause2, exc, results, raisedFor, reported, input>>

SpecWindow == InitWindow /\ [][FindValueAfterLabel]_vars

\* ------------------------------------------------------------ properties

Range(s) == {s[i] : i \in DOMAIN s}

AllAbsent(rec) == \A k \in FieldKeys : rec[k] = None

IsErrorRecord(rec, p) ==
    /\ DOMAIN rec = FieldKeys \cup {"bank", "source_file", "error"}
    /\ rec["bank"] = NoneBank
    /\ AllAbsent(rec)
    /\ rec["source_file"] = p
    /\ rec["error"] /= ""

\* C1: collect_results never lets an exception escape and returns one record
\* per document in sorted path order; the record of a document whose
\* process_pdf call raised has bank null, the five fields absent, the
\* document's path and a non-empty error string, and the documents after it
\* are processed all the same.
C1_OneRecordPerDocument ==
    /\ pc \in {"glob", "for", "pymupdf", "pdfplumber", "parse", "raised", "done"}
    /\ exc /= NoExc => pc = "raised"
    /\ pc \in {"for", "done"} =>
          /\ Len(results) = Cardinality(folder) - Len(queue)
          /\ \A i \in 1..Len(results) :
                /\ "source_file" \in DOMAIN results[i]
                /\ LET p == results[i]["source_file"]
                   IN  /\ p \in folder
                       /\ Cardinality({q \in folder : q < p}) = i - 1
                       /\ p \in raisedFor => IsErrorRecord(results[i], p)
    /\ pc = "done" => queue = <<>> /\ Len(results) = Cardinality(folder)

\* a failing first document, and the second one processed after it
C1_Witness ==
    /\ pc = "done"
    /\ Len(results) = 2
    /\ 1 \in raisedFor
    /\ IsErrorRecord(results[1], 1)
    /\ 2 \notin raisedFor
    /\ "error" \notin DOMAIN results[2]

Blank(page) == page = None \/ \A i \in 1..Len(page) : page[i] \in Space

Locked(d) == d.password \notin {NoPassword, ""}

PrimaryRaises(d) == ~fitz \/ ~d.fitzOpens \/ Locked(d)

PrimaryEmpty(d) == ~PrimaryRaises(d) /\ \A i \in 1..Len(d.fitzPages) : Blank(d.fitzPages[i])

SecondaryRaises(d) == ~pdfplumber \/ ~d.plumberOpens \/ Locked(d)

SecondaryEmpty(d) ==
    ~SecondaryRaises(d) /\ \A i \in 1..Len(d.plumberPages) : Blank(d.plumberPages[i])

\* the page texts pdfplumber gives, None counting as no text
PlumberText(d) ==
    Join([i \in 1..Len(d.plumberPages) |->
             IF d.plumberPages[i] = None THEN <<>> ELSE d.plumberPages[i]], <<NL, NL>>)

Primary == "_extract_with_pymupdf"

Secondary == "_extract_with_pdfplumber"

C2_Calls ==
    /\ calls /= <<>> => calls[1] = Primary
    /\ pc = "parse" => text /= <<>>
    /\ pc = "parse" => calls \in {<<Primary>>, <<Primary, Secondary>>}
    /\ pc = "raised" => calls = <<Primary, Secondary>>

C2_Steps ==
    /\ pc = "pymupdf" =>
          /\ pc' = "pdfplumber" <=> (PrimaryRaises(doc) \/ PrimaryEmpty(doc))
          /\ pc' = "parse" <=> ~(PrimaryRaises(doc) \/ PrimaryEmpty(doc))
          /\ pc' = "parse" =>
                text' = Strip(Join(doc.fitzPages, <<NL, NL>>)) /\ text' /= <<>>
    /\ pc = "pdfplumber" =>
          /\ pc' = "raised" <=> (SecondaryRaises(doc) \/ SecondaryEmpty(doc))
          /\ pc' = "parse" <=> ~(SecondaryRaises(doc) \/ SecondaryEmpty(doc))
          /\ pc' = "parse" => text' = Strip(PlumberText(doc)) /\ text' /= <<>>

\* C2: extract_text tries the primary engine first; it tries the secondary
\* engine exactly when the primary raised or returned empty text; the text it
\* returns is the first non-empty one and so never empty; it fails exactly
\* when each engine raised or returned empty text.
C2_TwoStageFallback == [](C2_Calls) /\ [][C2_Steps]_vars

\* the primary engine gave nothing and the text came from the fallback
C2_Witness == pc = "parse" /\ calls = <<Primary, Secondary>> /\ cause1 = EmptyText

\* C3 (as claimed): the failure extract_text raises when both engines failed
\* carries the cause from the primary and the cause from the secondary engine.
C3_FailureCarriesBothCauses ==
    pc = "raised" => cause1 \in exc.chain /\ cause2 \in exc.chain

\* C4 (as claimed): the failure extract_text reports for a rejected password
\* differs from the one it reports for a document without extractable content.
C4_AuthenticationFailureDistinct ==
    reported.auth /= NoExc /\ reported.absent /= NoExc => reported.auth /= reported.absent

BankNames == <<"bank1", "bank2", "bank3", "bank4", "bank5">>

CueBanks(ids) == {CueChunks[ids[i]].bank : i \in DOMAIN ids} \ {0}

\* C5: the classifier returns the bank of the first rule, in the order bank1
\* to bank5, that has a cue phrase in the lower-cased text, and unknown when
\* the text has no cue phrase.
C5_FirstRuleWins ==
    pc = "classified" =>
        out = (IF CueBanks(input.ids) = {} THEN "unknown"
               ELSE BankNames[Min(CueBanks(input.ids))])

\* a bank5 cue ahead of a bank3 cue in the text: bank3
C5_Witness ==
    /\ pc = "classified"
    /\ Len(input.ids) = 2
    /\ CueChunks[input.ids[1]].bank = 5
    /\ CueChunks[input.ids[2]].bank = 3
    /\ out = "bank3"

\* C6: whatever the text, each of the five routines returns a record with
\* exactly the five keys, each mapped to a string or to the absent marker.
C6_FiveKeys ==
    pc = "parsed" =>
        /\ DOMAIN out = FieldKeys
        /\ \A k \in FieldKeys : out[k] = None \/ IsStr(out[k])

\* a routine that found every field but one
C6_Witness ==
    /\ pc = "parsed"
    /\ DOMAIN out = FieldKeys
    /\ out["last4"] /= None
    /\ out["total_balance"] /= None
    /\ out["payment_due_date"] = None

Cues == {Cue1, Cue2a, Cue2b, Cue3a, Cue3b, Cue4a, Cue4b, Cue5a, Cue5b}

NoCue(t) == \A c \in Cues : ~Contains(Lower(t), c)

\* the calls made after the classifier's
AfterClassifier == SubSeq(calls, 1 + Min({i \in DOMAIN calls : calls[i] = "detect_bank"}),
                          Len(calls))

Registered ==
    [b \in Range(BankNames) |->
        CASE b = "bank1" -> [name |-> "parse_bank_1", data |-> parse_bank_1(text)]
          [] b = "bank2" -> [name |-> "parse_bank_2", data |-> parse_bank_2(text)]
          [] b = "bank3" -> [name |-> "parse_bank_3", data |-> parse_bank_3(text)]
          [] b = "bank4" -> [name |-> "parse_bank_4", data |-> parse_bank_4(text)]
          [] b = "bank5" -> [name |-> "parse_bank_5", data |-> parse_bank_5(text)]]

\* C7: identify_and_parse classifies first and then calls exactly one
\* routine, the one registered for the classifier's result, and attaches that
\* bank to the record; for a text without any cue phrase it calls no routine
\* and the record has bank unknown and the five fields absent.
C7_ExactlyOneRoutine ==
    "detect_bank" \in Range(calls) =>
        LET rec == results[Len(results)]
            bank == Classify(text)
        IN  /\ rec["bank"] = bank
            /\ DOMAIN rec = FieldKeys \cup {"bank", "source_file"}
            /\ NoCue(text) => bank = "unknown"
            /\ bank = "unknown" => AfterClassifier = <<>> /\ AllAbsent(rec)
            /\ bank /= "unknown" =>
                  /\ AfterClassifier = <<Registered[bank].name>>
                  /\ \A k \in FieldKeys : rec[k] = Registered[bank].data[k]

\* a document without cue phrase and then a bank3 document
C7_Witness ==
    /\ pc = "done"
    /\ Len(results) = 2
    /\ results[1]["bank"] = "unknown"
    /\ "error" \notin DOMAIN results[1]
    /\ AllAbsent(results[1])
    /\ results[2]["bank"] = "bank3"
    /\ AfterClassifier = <<"parse_bank_3">>
    /\ results[2]["total_balance"] /= None

\* out lies in the window characters after the first label
InWindow(v, site) ==
    \E a \in LabelEnd(site)..(LabelEnd(site) + Sites[site].window) :
        /\ a + Len(v) <= LabelEnd(site) + Sites[site].window
        /\ v = Slice(text, a, a + Len(v))

\* C8: the windowed search anchors on the first occurrence of the label and
\* looks at the window characters after its end only: a value that lies beyond
\* the window is not returned, and the result is absent when there is no label
\* or no value inside the window.
C8_WindowBounds ==
    pc = "found" =>
        LET site == input.site
            dist == Distance(site, input.shape, input.gap)
            w == Sites[site].window
        IN  /\ input.shape = "nolabel" => out = None
            /\ input.shape /= "nolabel" /\ dist >= w => out = None
            /\ input.shape /= "nolabel" /\ dist + Len(Sites[site].value) <= w =>
                  out = Sites[site].core
            /\ out /= None => InWindow(out, site)

\* a second label right before the value, which the window of the first
\* label does not reach
C8_Witness ==
    /\ pc = "found"
    /\ input.shape = "relabel"
    /\ input.gap < Sites[input.site].window
    /\ Distance(input.site, input.shape, input.gap) >= Sites[input.site].window
    /\ out = None

LinesOf(field) == SelectSeq(input.ids, LAMBDA i : Bank1Lines[i].field = field)

FirstValue(field) == Bank1Lines[LinesOf(field)[1]].value

LastValue(field) == Bank1Lines[LinesOf(field)[Len(LinesOf(field))]].value

\* C9: the bank1 routine gives total_balance the amount of the last balance
\* line of the text; payment_due_date, minimum_payment and last4 come from the
\* first line that has them.
C9_LastBalanceWins ==
    pc = "parsed" =>
        /\ out["total_balance"] =
              (IF LinesOf("total_balance") = <<>> THEN None ELSE LastValue("total_balance"))
        /\ \A f \in {"payment_due_date", "minimum_payment", "last4"} :
              out[f] = (IF LinesOf(f) = <<>> THEN None ELSE FirstValue(f))

\* two different balance lines and two different due dates
C9_Witness ==
    /\ pc = "parsed"
    /\ Len(LinesOf("total_balance")) = 2
    /\ FirstValue("total_balance") /= LastValue("total_balance")
    /\ out["total_balance"] = LastValue("total_balance")

\* C10 (as claimed): for "Opening/Closing Date X <sep> Y" with a hyphen or an
\* en-dash as separator, with or without spaces around it,
\* statement_closing_date is the whole second endpoint Y.
C10_ClosingDateIsSecondEndpoint ==
    pc = "parsed" => out["statement_closing_date"] = RangeDates[input.y]

====
